---- MODULE Spec2Model ----
(***************************************************************************)
(* Model of the real-time analysis session hook `useAnalysis`              *)
(* (frontend/lib/use-analysis.ts).  The hook keeps four pieces of React    *)
(* state (status, progress, message, result) and one mutable reference     *)
(* (socketRef) to the WebSocket created by the latest startAnalysis call.  *)
(* Every WebSocket ever created keeps its four handlers, so the events of  *)
(* a superseded socket still run the code of the hook.                     *)
(*                                                                         *)
(* The browser's WebSocket is the environment: it is modelled by the       *)
(* readyState of each socket and by the guards that say when the platform  *)
(* may fire open, message, error and close at a socket.                    *)
(***************************************************************************)
EXTENDS Integers, Sequences, FiniteSets, TLC

VARIABLES status, progress, message, result, socketRef, channels, last,
          terminals

vars == <<status, progress, message, result, socketRef, channels, last,
          terminals>>

\* The React state the hook returns to its consumer.
view == <<status, progress, message, result>>

----------------------------------------------------------------------------
\* Bounds of the model.

\* Number of startAnalysis calls explored.
MaxSubmits == 2

----------------------------------------------------------------------------
\* JavaScript values.

Undefined == [t |-> "undefined"]

Null == [t |-> "null"]

Str(s) == [t |-> "string", s |-> s]

Num(n) == [t |-> "number", n |-> n]

Obj(f) == [t |-> "object", f |-> f]

\* Truthiness as used by `userId || 'guest'` and `if (socketRef.current)`.
Truthy(v) ==
    CASE v.t = "undefined" -> FALSE
      [] v.t = "null" -> FALSE
      [] v.t = "string" -> v.s # ""
      [] v.t = "number" -> v.n # 0
      [] OTHER -> TRUE

\* Property access v.name: throws a TypeError on null and undefined, yields
\* undefined for a missing property and for a property of a primitive.
GetThrows(v) == v.t \in {"null", "undefined"}

Get(v, name) ==
    IF v.t = "object" /\ name \in DOMAIN v.f THEN v.f[name] ELSE Undefined

----------------------------------------------------------------------------
\* Texts of inbound frames (event.data) and JSON.parse.

BadText == [valid |-> FALSE]

Text(v) == [valid |-> TRUE, value |-> v]

\* JSON.parse(event.data): throws a SyntaxError on text that is not JSON.
JSONparse(text) ==
    IF text.valid THEN [threw |-> FALSE, value |-> text.value]
                  ELSE [threw |-> TRUE]

ProgressValues == {25, 40}

ResultPayload == Obj([overall_score |-> Num(81)])

ProgressFrames ==
    {Text(Obj([type |-> Str("progress"), progress |-> Num(p),
               message |-> Str("Crawling")])) : p \in ProgressValues}

CompleteFrame == Text(Obj([type |-> Str("complete"), results |-> ResultPayload]))

ErrorFrame == Text(Obj([type |-> Str("error"), message |-> Str("Crawl blocked")]))

\* Frames of a known type that lack a required field.
MissingFieldFrames ==
    { Text(Obj([type |-> Str("progress"), message |-> Str("Crawling")])),
      Text(Obj([type |-> Str("progress"), progress |-> Num(40)])),
      Text(Obj([type |-> Str("complete")])),
      Text(Obj([type |-> Str("error")])) }

\* Frames that are not JSON, JSON without a type, or of an unknown type.
UndecodableFrames ==
    { BadText,
      Text(Null),
      Text(Num(7)),
      Text(Obj([progress |-> Num(40)])),
      Text(Obj([type |-> Str("ping"), message |-> Str("Crawling")])) }

Frames ==
    ProgressFrames \cup {CompleteFrame, ErrorFrame}
        \cup MissingFieldFrames \cup UndecodableFrames

NoFrame == [valid |-> FALSE, none |-> TRUE]

----------------------------------------------------------------------------
\* Arguments of startAnalysis.

Urls == {"https://ex.com"}

Keywords == {"shoes"}

\* The analyze page passes its userId state: undefined until a session with a
\* truthy user id is found, then that id.
UserIds == {Undefined, Str("u1")}

ConnectingText == Str("Connecting to RankForge AI...")

ConnectionErrorText == Str("Connection error. Is the backend running?")

----------------------------------------------------------------------------
\* WebSocket objects.

\* new WebSocket(...): readyState CONNECTING, nothing sent, close() never
\* called; url, keyword and userId are the variables its handlers close over.
NewWebSocket(url, keyword, userId) ==
    [ ready |-> "CONNECTING",
      failing |-> FALSE,
      closeFired |-> FALSE,
      closeCalls |-> 0,
      terminalMsgs |-> 0,
      sent |-> <<>>,
      url |-> url, keyword |-> keyword, userId |-> userId ]

\* ws.close(): CONNECTING -> CLOSING with the connection failed (the error
\* event follows), OPEN -> CLOSING (closing handshake), otherwise no effect.
WsClose(ws) ==
    [ws EXCEPT !.closeCalls = @ + 1,
               !.ready = IF @ \in {"CONNECTING", "OPEN"} THEN "CLOSING" ELSE @,
               !.failing = @ \/ ws.ready = "CONNECTING"]

\* A send that transmits the request as two frames.
WsSendSplit(ws, data) ==
    [ws EXCEPT !.sent = Append(Append(@, [url |-> data.url]), data)]

\* A send that transmits nothing.
WsSendNothing(ws, data) == ws

\* ws.send(data) on an open socket.
WsSend(ws, data) == [ws EXCEPT !.sent = Append(@, data)]

Chans == 1..Len(channels)

----------------------------------------------------------------------------
Init ==
    /\ status = "idle"
    /\ progress = Num(0)
    /\ message = Str("")
    /\ result = Null
    /\ socketRef = 0
    /\ channels = <<>>
    /\ last = [op |-> "init", ch |-> 0, frame |-> NoFrame, threw |-> FALSE]
    /\ terminals = 0

\* The statuses that end a session.
TerminalStatuses == {"complete", "error"}

\* terminals counts the steps since the last startAnalysis call in which a
\* handler moved the status into 'complete' or 'error' from another status.
TerminalCount(newStatus) ==
    IF newStatus \in TerminalStatuses /\ newStatus # status
    THEN terminals + 1 ELSE terminals

\* startAnalysis without the close of the connection it replaces.
startAnalysisNoClose(url, keyword, userId) ==
    /\ Len(channels) < MaxSubmits
    /\ status' = "connecting"
    /\ progress' = Num(0)
    /\ message' = ConnectingText
    /\ result' = Null
    /\ channels' = Append(channels, NewWebSocket(url, keyword, userId))
    /\ socketRef' = Len(channels) + 1
    /\ last' = [op |-> "startAnalysis", ch |-> Len(channels) + 1,
                frame |-> NoFrame, threw |-> FALSE]
    /\ terminals' = 0

\* startAnalysis without the setResult(null) of its reset.
startAnalysisKeepResult(url, keyword, userId) ==
    /\ Len(channels) < MaxSubmits
    /\ status' = "connecting"
    /\ progress' = Num(0)
    /\ message' = ConnectingText
    /\ LET closed == IF socketRef # 0
                     THEN [channels EXCEPT ![socketRef] = WsClose(@)]
                     ELSE channels
       IN channels' = Append(closed, NewWebSocket(url, keyword, userId))
    /\ socketRef' = Len(channels) + 1
    /\ last' = [op |-> "startAnalysis", ch |-> Len(channels) + 1,
                frame |-> NoFrame, threw |-> FALSE]
    /\ terminals' = 0
    /\ UNCHANGED result

\* startAnalysis without the assignment socketRef.current = ws.
startAnalysisNoRef(url, keyword, userId) ==
    /\ Len(channels) < MaxSubmits
    /\ status' = "connecting"
    /\ progress' = Num(0)
    /\ message' = ConnectingText
    /\ result' = Null
    /\ LET closed == IF socketRef # 0
                     THEN [channels EXCEPT ![socketRef] = WsClose(@)]
                     ELSE channels
       IN channels' = Append(closed, NewWebSocket(url, keyword, userId))
    /\ socketRef' = socketRef
    /\ last' = [op |-> "startAnalysis", ch |-> Len(channels) + 1,
                frame |-> NoFrame, threw |-> FALSE]
    /\ terminals' = 0

\* startAnalysis(url, keyword, userId)
startAnalysis(url, keyword, userId) ==
    /\ Len(channels) < MaxSubmits
    /\ status' = "connecting"
    /\ progress' = Num(0)
    /\ message' = ConnectingText
    /\ result' = Null
    /\ LET closed == IF socketRef # 0
                     THEN [channels EXCEPT ![socketRef] = WsClose(@)]
                     ELSE channels
       IN channels' = Append(closed, NewWebSocket(url, keyword, userId))
    /\ socketRef' = Len(channels) + 1
    /\ last' = [op |-> "startAnalysis", ch |-> Len(channels) + 1,
                frame |-> NoFrame, threw |-> FALSE]
    /\ terminals' = 0

\* A request built without the `|| 'guest'` default.
RequestUserIdNoDefault(userId) == userId

\* user_id: userId || 'guest'
RequestUserId(userId) == IF Truthy(userId) THEN userId ELSE Str("guest")

\* ws.onopen
OnOpen(c) ==
    /\ channels[c].ready = "CONNECTING"
    /\ status' = "analyzing"
    /\ LET ws == channels[c]
           payload == [url |-> ws.url, target_keyword |-> ws.keyword,
                       user_id |-> RequestUserId(ws.userId)]
       IN channels' = [channels EXCEPT
                          ![c] = WsSend([ws EXCEPT !.ready = "OPEN"], payload)]
    /\ last' = [op |-> "onopen", ch |-> c, frame |-> NoFrame, threw |-> FALSE]
    /\ UNCHANGED <<progress, message, result, socketRef>>
    /\ terminals' = TerminalCount(status')

\* A progress update that refuses to go backwards.
ProgressValueMonotonic(data) ==
    LET p == Get(data, "progress")
    IN IF p.t = "number" /\ progress.t = "number" /\ p.n < progress.n
       THEN progress ELSE p

\* setProgress(data.progress): the value is stored as received.
ProgressValue(data) == Get(data, "progress")

\* An error branch that shows the generic text instead of the server's.
ServerErrorTextGeneric(data) == ConnectionErrorText

\* setMessage(data.message) of the error branch.
ServerErrorText(data) == Get(data, "message")

\* A complete branch that keeps only the overall score of the results.
StoredResultScoreOnly(data) == Get(Get(data, "results"), "overall_score")

\* setResult(data.results): the payload is stored as received.
StoredResult(data) == Get(data, "results")

\* A progress branch that also calls setStatus('analyzing').
OnProgressSetsAnalyzing(data) ==
    /\ progress' = ProgressValue(data)
    /\ message' = Get(data, "message")
    /\ status' = "analyzing"
    /\ UNCHANGED <<result, channels>>

\* The progress branch: setProgress(data.progress); setMessage(data.message).
OnProgress(data) ==
    /\ progress' = ProgressValue(data)
    /\ message' = Get(data, "message")
    /\ UNCHANGED <<status, result, channels>>

\* A terminal message handled without the ws.close() that follows it.
TerminalCloseForgotten(ws) == [ws EXCEPT !.terminalMsgs = @ + 1]

\* The ws.close() that ends the handling of a complete or error message;
\* terminalMsgs counts the terminal messages handled on the socket.
TerminalClose(ws) == [WsClose(ws) EXCEPT !.terminalMsgs = @ + 1]

\* A catch block that ends the session instead of only logging.
CatchParseErrorFatal(c) ==
    /\ message' = Str("Parse error")
    /\ status' = "error"
    /\ channels' = [channels EXCEPT ![c] = WsClose(@)]
    /\ UNCHANGED <<progress, result>>

\* The catch block: console.error('Parse error', e) and nothing else.
CatchParseError(c) ==
    UNCHANGED <<status, progress, message, result, channels>>

\* ws.onmessage: the platform delivers a message only to an OPEN socket.
\* An exception thrown inside the try block (JSON.parse on text that is not
\* JSON, or reading .type of null) is caught and logged.
OnMessage(c, text) ==
    /\ channels[c].ready = "OPEN"
    /\ LET parsed == JSONparse(text)
           caught == parsed.threw \/ GetThrows(parsed.value)
           data == IF caught THEN Undefined ELSE parsed.value
           type == Get(data, "type")
       IN IF caught
          THEN CatchParseError(c)
          ELSE IF type = Str("progress")
          THEN OnProgress(data)
          ELSE IF type = Str("complete")
          THEN /\ result' = StoredResult(data)
               /\ status' = "complete"
               /\ channels' = [channels EXCEPT ![c] = TerminalClose(@)]
               /\ UNCHANGED <<progress, message>>
          ELSE IF type = Str("error")
          THEN /\ message' = ServerErrorText(data)
               /\ status' = "error"
               /\ channels' = [channels EXCEPT ![c] = TerminalClose(@)]
               /\ UNCHANGED <<progress, result>>
          ELSE UNCHANGED <<status, progress, message, result, channels>>
    /\ last' = [op |-> "onmessage", ch |-> c, frame |-> text, threw |-> FALSE]
    /\ UNCHANGED socketRef
    /\ terminals' = TerminalCount(status')

\* An error handler that reconnects while submissions remain.
OnErrorReconnect(c) ==
    /\ channels[c].ready \in {"CONNECTING", "OPEN", "CLOSING"}
    /\ IF Len(channels) < MaxSubmits
       THEN /\ message' = ConnectingText
            /\ status' = "connecting"
            /\ channels' = Append(
                  [channels EXCEPT ![c].ready = "CLOSED", ![c].failing = TRUE],
                  NewWebSocket(channels[c].url, channels[c].keyword,
                               channels[c].userId))
            /\ socketRef' = Len(channels) + 1
       ELSE /\ message' = ConnectionErrorText
            /\ status' = "error"
            /\ channels' = [channels EXCEPT ![c].ready = "CLOSED",
                                            ![c].failing = TRUE]
            /\ UNCHANGED socketRef
    /\ last' = [op |-> "onerror", ch |-> c, frame |-> NoFrame, threw |-> FALSE]
    /\ UNCHANGED <<progress, result>>
    /\ terminals' = TerminalCount(status')

\* An error handler that also calls ws.close().
OnErrorClosing(c) ==
    /\ channels[c].ready \in {"CONNECTING", "OPEN", "CLOSING"}
    /\ message' = ConnectionErrorText
    /\ status' = "error"
    /\ channels' = [channels EXCEPT
          ![c] = WsClose([@ EXCEPT !.ready = "CLOSED", !.failing = TRUE])]
    /\ last' = [op |-> "onerror", ch |-> c, frame |-> NoFrame, threw |-> FALSE]
    /\ UNCHANGED <<progress, result, socketRef>>
    /\ terminals' = TerminalCount(status')

\* ws.onerror: the platform fires error when the connection fails, which can
\* happen while CONNECTING, OPEN or CLOSING (always after close() on a socket
\* that was still CONNECTING); the socket is CLOSED when the handler runs.
OnError(c) ==
    /\ channels[c].ready \in {"CONNECTING", "OPEN", "CLOSING"}
    /\ message' = ConnectionErrorText
    /\ status' = "error"
    /\ channels' = [channels EXCEPT ![c].ready = "CLOSED", ![c].failing = TRUE]
    /\ last' = [op |-> "onerror", ch |-> c, frame |-> NoFrame, threw |-> FALSE]
    /\ UNCHANGED <<progress, result, socketRef>>
    /\ terminals' = TerminalCount(status')

\* A close handler whose commented-out setMessage('Connection closed') runs.
OnCloseSetsMessage(c) ==
    /\ ~channels[c].closeFired
    /\ \/ channels[c].ready = "CLOSED"
       \/ channels[c].ready \in {"OPEN", "CLOSING"} /\ ~channels[c].failing
    /\ channels' = [channels EXCEPT ![c].ready = "CLOSED",
                                    ![c].closeFired = TRUE]
    /\ last' = [op |-> "onclose", ch |-> c, frame |-> NoFrame, threw |-> FALSE]
    /\ message' = IF status \notin TerminalStatuses
                  THEN Str("Connection closed") ELSE message
    /\ UNCHANGED <<status, progress, result, socketRef>>
    /\ terminals' = TerminalCount(status')

\* A close handler that puts the hook back to 'idle'.
OnCloseResetsIdle(c) ==
    /\ ~channels[c].closeFired
    /\ \/ channels[c].ready = "CLOSED"
       \/ channels[c].ready \in {"OPEN", "CLOSING"} /\ ~channels[c].failing
    /\ channels' = [channels EXCEPT ![c].ready = "CLOSED",
                                    ![c].closeFired = TRUE]
    /\ last' = [op |-> "onclose", ch |-> c, frame |-> NoFrame, threw |-> FALSE]
    /\ status' = "idle"
    /\ UNCHANGED <<progress, message, result, socketRef>>
    /\ terminals' = TerminalCount(status')

\* ws.onclose: fired once per socket, after the error event of a failed
\* connection or when an established connection is closed; the body of the
\* handler's `if` is a comment, so it assigns nothing.
OnClose(c) ==
    /\ ~channels[c].closeFired
    /\ \/ channels[c].ready = "CLOSED"
       \/ channels[c].ready \in {"OPEN", "CLOSING"} /\ ~channels[c].failing
    /\ channels' = [channels EXCEPT ![c].ready = "CLOSED",
                                    ![c].closeFired = TRUE]
    /\ last' = [op |-> "onclose", ch |-> c, frame |-> NoFrame, threw |-> FALSE]
    /\ UNCHANGED <<status, progress, message, result, socketRef>>
    /\ terminals' = TerminalCount(status')

Next ==
    \/ \E url \in Urls, keyword \in Keywords, userId \in UserIds :
          startAnalysis(url, keyword, userId)
    \/ \E c \in Chans : OnOpen(c)
    \/ \E c \in Chans, text \in Frames : OnMessage(c, text)
    \/ \E c \in Chans : OnError(c)
    \/ \E c \in Chans : OnClose(c)

Spec == Init /\ [][Next]_vars

----------------------------------------------------------------------------
\* The hook in front of a server that follows the wire protocol: zero or more
\* progress messages, then one terminal message, and no close of an open
\* connection before that terminal message.

TerminalFrames == {CompleteFrame, ErrorFrame}

NextServer ==
    \/ \E url \in Urls, keyword \in Keywords, userId \in UserIds :
          startAnalysis(url, keyword, userId)
    \/ \E c \in Chans : OnOpen(c)
    \/ \E c \in Chans, text \in ProgressFrames : OnMessage(c, text)
    \/ \E c \in Chans, text \in TerminalFrames : OnMessage(c, text)
    \/ \E c \in Chans : OnError(c)
    \/ \E c \in Chans : channels[c].ready # "OPEN" /\ OnClose(c)

\* A connection attempt resolves: the socket opens or fails.
Establish(c) ==
    /\ c \in Chans
    /\ channels[c].ready = "CONNECTING"
    /\ (OnOpen(c) \/ OnError(c))

\* The terminal message of the server is delivered to an open socket.
DeliverTerminal(c) ==
    /\ c \in Chans
    /\ \E text \in TerminalFrames : OnMessage(c, text)

FairSpec ==
    /\ Init
    /\ [][NextServer]_vars
    /\ \A c \in 1..MaxSubmits : WF_vars(Establish(c)) /\ WF_vars(DeliverTerminal(c))

----------------------------------------------------------------------------
\* The analyze page (frontend/app/analyze/page.tsx) as the only caller of the
\* hook.  The contents of its two inputs are whatever the user typed, so they
\* are chosen when the form is submitted.

PageUrls == Urls \cup {""}

PageKeywords == Keywords \cup {""}

\* A submit button disabled only while 'analyzing', like its label.
SubmitDisabledAnalyzingOnly == status = "analyzing"

\* disabled={status === 'analyzing' || status === 'connecting'}
SubmitDisabled == status \in {"analyzing", "connecting"}

\* {(status === 'analyzing' || status === 'connecting') && <RealTimeProgress/>}
ShowProgress == status \in {"analyzing", "connecting"}

\* A results view shown whenever a result is stored.
ShowResultsIgnoringStatus == Truthy(result)

\* {status === 'complete' && result && (...)}
ShowResults == status = "complete" /\ Truthy(result)

\* handleAnalyze: if (url && keyword) startAnalysis(url, keyword, userId)
handleAnalyze(url, keyword, userId) ==
    IF url # "" /\ keyword # ""
    THEN startAnalysis(url, keyword, userId)
    ELSE /\ last' = [op |-> "handleAnalyze", ch |-> socketRef,
                     frame |-> NoFrame, threw |-> FALSE]
         /\ UNCHANGED <<status, progress, message, result, socketRef,
                        channels, terminals>>

\* The form is submitted through its submit button; a disabled submit button
\* also blocks the implicit submission of the form.
SubmitForm(url, keyword, userId) ==
    /\ ~SubmitDisabled
    /\ handleAnalyze(url, keyword, userId)

NextPage ==
    \/ \E url \in PageUrls, keyword \in PageKeywords, userId \in UserIds :
          SubmitForm(url, keyword, userId)
    \/ \E c \in Chans : OnOpen(c)
    \/ \E c \in Chans, text \in Frames : OnMessage(c, text)
    \/ \E c \in Chans : OnError(c)
    \/ \E c \in Chans : OnClose(c)

PageSpec == Init /\ [][NextPage]_vars

----------------------------------------------------------------------------
\* Steps, as recorded by `last`.

\* The step just taken ran a handler of a socket.
IsEvent(l) == l.op \in {"onopen", "onmessage", "onerror", "onclose"}

\* The text is not JSON, is JSON without a type field, or has a type other
\* than 'progress', 'complete' and 'error'.
IsUndecodable(text) ==
    \/ ~text.valid
    \/ text.value.t # "object"
    \/ "type" \notin DOMAIN text.value.f
    \/ text.value.f["type"] \notin {Str("progress"), Str("complete"), Str("error")}

\* The type field of a frame, undefined when the text has none.
FrameType(text) ==
    IF text.valid /\ text.value.t = "object" /\ "type" \in DOMAIN text.value.f
    THEN text.value.f["type"] ELSE Undefined

\* close() has never been called on socket c.
NeverClosed(c) == channels[c].closeCalls = 0

----------------------------------------------------------------------------
\* C1 - Single-channel invariant: at most one socket created by the hook has
\* not had close() called on it, and every startAnalysis after the first
\* calls close() on the socket it owned, in the same call that creates the
\* new one.
C1_SingleChannel ==
    /\ [](Cardinality({c \in Chans : NeverClosed(c)}) <= 1)
    /\ [][(last'.op = "startAnalysis" /\ socketRef # 0)
            => /\ channels'[socketRef].closeCalls
                    = channels[socketRef].closeCalls + 1
               /\ Len(channels') = Len(channels) + 1
               /\ channels'[socketRef'].closeCalls = 0]_vars

C1_Witness ==
    /\ last.op = "startAnalysis"
    /\ Len(channels) = 2
    /\ channels[1].closeCalls = 1
    /\ channels[1].terminalMsgs = 0
    /\ channels[2].closeCalls = 0

\* C2 - Terminal exclusivity: from 'complete' or 'error' the status changes
\* only through a new startAnalysis call.
C2_TerminalExclusivity ==
    [][(status \in {"complete", "error"} /\ status' # status)
          => last'.op = "startAnalysis"]_vars

\* C3 - Preemption correctness: startAnalysis during 'connecting' or
\* 'analyzing' resets the exposed state and calls close() on the socket it
\* replaces, and afterwards no event of a replaced socket changes the status,
\* progress, status text or result.
C3_Preemption ==
    /\ [][(last'.op = "startAnalysis" /\ status \in {"connecting", "analyzing"})
            => /\ status' = "connecting"
               /\ progress' = Num(0)
               /\ result' = Null
               /\ message' = ConnectingText
               /\ channels'[socketRef].closeCalls
                    = channels[socketRef].closeCalls + 1]_vars
    /\ [][(IsEvent(last') /\ last'.ch # socketRef) => UNCHANGED view]_vars

\* C4 - A progress, complete or error message delivered while the status is
\* 'complete' or 'error' changes none of status, progress, status text and
\* result.
C4_ConsumedOnlyWhileAnalyzing ==
    [][(/\ last'.op = "onmessage"
        /\ last'.frame \in ProgressFrames \cup {CompleteFrame, ErrorFrame}
        /\ status \in {"complete", "error"})
          => UNCHANGED view]_vars

\* C5 - Whenever the status is 'complete' or 'error', close() has been called
\* on the socket of the current session.
C5_TerminalImpliesClosed ==
    status \in {"complete", "error"}
        => socketRef # 0 /\ ~NeverClosed(socketRef)

\* C6 - Projection consistency: 'complete' implies a non-null result and
\* 'error' implies that the exposed text is a string.
C6_ProjectionConsistency ==
    /\ status = "complete" => result \notin {Null, Undefined}
    /\ status = "error" => message.t = "string"

\* C7 - In status 'idle', 'connecting', 'analyzing' and 'error' the exposed
\* result is null.
C7_ResultOnlyWhenComplete ==
    status # "complete" => result = Null

\* C8 - A frame that is not JSON, has no type field or has an unknown type
\* leaves status, progress, status text and result unchanged, does not close
\* the socket, and the handler returns normally.
C8_UndecodableIsNoOp ==
    [][(last'.op = "onmessage" /\ IsUndecodable(last'.frame))
          => /\ UNCHANGED <<view, channels, socketRef>>
             /\ ~last'.threw]_vars

C8_Witness ==
    /\ last.op = "onmessage"
    /\ IsUndecodable(last.frame)
    /\ ~last.frame.valid
    /\ status = "analyzing"
    /\ progress = Num(40)
    /\ channels[socketRef].ready = "OPEN"

\* C9 - A frame of type 'progress', 'complete' or 'error' that lacks a
\* required field leaves status, progress, status text and result unchanged.
C9_MissingFieldIsNoOp ==
    [][(last'.op = "onmessage" /\ last'.frame \in MissingFieldFrames)
          => UNCHANGED view]_vars

\* C10 (as stated) - close() is called exactly once on every socket that has
\* been superseded.
C10_ExactlyOneClose ==
    \A c \in Chans : c # socketRef => channels[c].closeCalls = 1

\* C10 (amended) - each startAnalysis after the first calls close() exactly
\* once on the socket it replaces; over its lifetime a superseded socket has
\* had close() called once, plus once more when a complete or server error
\* message was handled on it, which happens at most once.
C10_CloseCount ==
    /\ [](\A c \in Chans : c # socketRef =>
            /\ channels[c].terminalMsgs <= 1
            /\ channels[c].closeCalls = 1 + channels[c].terminalMsgs)
    /\ [][(last'.op = "startAnalysis" /\ socketRef # 0)
            => channels'[socketRef].closeCalls
                 = channels[socketRef].closeCalls + 1]_vars

C10_Witness ==
    /\ last.op = "startAnalysis"
    /\ Len(channels) = 2
    /\ channels[1].terminalMsgs = 1
    /\ channels[1].closeCalls = 2

\* C11 - startAnalysis can be called in every status (idle, connecting,
\* analyzing, complete, error) and always yields status 'connecting',
\* progress 0, the connecting text and result null.
C11_SubmitAlwaysResets ==
    /\ [](Len(channels) < MaxSubmits =>
            \A url \in Urls, keyword \in Keywords, userId \in UserIds :
                ENABLED startAnalysis(url, keyword, userId))
    /\ [][last'.op = "startAnalysis"
            => /\ status' = "connecting"
               /\ progress' = Num(0)
               /\ message' = ConnectingText
               /\ result' = Null]_vars

\* A second session started after the first one ended in 'error' through a
\* transport failure.
C11_Witness ==
    /\ last.op = "startAnalysis"
    /\ Len(channels) = 2
    /\ channels[1].failing
    /\ channels[1].ready = "CLOSED"
    /\ status = "connecting"
    /\ result = Null

\* C12 - Progress tolerance: a progress message received while 'analyzing'
\* leaves the status 'analyzing' and makes the exposed progress and status
\* text those of that message, whatever the previous progress was.
C12_LastProgressWins ==
    [][(/\ last'.op = "onmessage"
        /\ last'.frame \in ProgressFrames
        /\ status = "analyzing")
          => /\ status' = "analyzing"
             /\ progress' = last'.frame.value.f["progress"]
             /\ message' = last'.frame.value.f["message"]]_vars

\* The lower of the two progress values is exposed after a progress message.
C12_Witness ==
    /\ last.op = "onmessage"
    /\ last.frame \in ProgressFrames
    /\ status = "analyzing"
    /\ progress = Num(25)
    /\ message = Str("Crawling")

\* C13 - A server error message {type:'error', message:m} received while
\* 'analyzing' sets the status to 'error', the exposed text to exactly m, and
\* calls close() on the socket that delivered it.
C13_ServerError ==
    [][(/\ last'.op = "onmessage"
        /\ last'.frame = ErrorFrame
        /\ status = "analyzing")
          => /\ status' = "error"
             /\ message' = last'.frame.value.f["message"]
             /\ channels'[last'.ch].closeCalls
                  = channels[last'.ch].closeCalls + 1
             /\ channels'[last'.ch].ready = "CLOSING"]_vars

C13_Witness ==
    /\ last.op = "onmessage"
    /\ last.frame = ErrorFrame
    /\ last.ch = socketRef
    /\ status = "error"
    /\ message = Str("Crawl blocked")
    /\ channels[socketRef].closeCalls = 1

\* C14 - A complete message {type:'complete', results:r} received while
\* 'analyzing' sets the status to 'complete', stores exactly r as the result
\* and calls close() on the socket; progress and status text keep their
\* values.
C14_Complete ==
    [][(/\ last'.op = "onmessage"
        /\ last'.frame = CompleteFrame
        /\ status = "analyzing")
          => /\ status' = "complete"
             /\ result' = last'.frame.value.f["results"]
             /\ channels'[last'.ch].closeCalls
                  = channels[last'.ch].closeCalls + 1
             /\ channels'[last'.ch].ready = "CLOSING"
             /\ UNCHANGED <<progress, message>>]_vars

C14_Witness ==
    /\ last.op = "onmessage"
    /\ last.frame = CompleteFrame
    /\ last.ch = socketRef
    /\ status = "complete"
    /\ result = ResultPayload
    /\ progress = Num(40)
    /\ message = Str("Crawling")
    /\ channels[socketRef].closeCalls = 1

\* C15 - A socket that fails to establish, or that the remote side closes
\* (close event) while the session is 'connecting' or 'analyzing' and before
\* any terminal message, results in status 'error' with the generic
\* connectivity text.
C15_TransportFailureIsError ==
    [][(/\ last'.op \in {"onerror", "onclose"}
        /\ last'.ch = socketRef
        /\ status \in {"connecting", "analyzing"}
        /\ channels[socketRef].terminalMsgs = 0)
          => /\ status' = "error"
             /\ message' = ConnectionErrorText]_vars

\* C16 - No automatic reconnection: sockets are created only by
\* startAnalysis, one per call, so the number of sockets ever created equals
\* the number of startAnalysis calls; an error or close event creates no
\* socket, leaves socketRef alone and never moves the status to 'connecting'.
C16_NoReconnect ==
    /\ [][Len(channels') # Len(channels) => last'.op = "startAnalysis"]_vars
    /\ [][last'.op = "startAnalysis"
            => Len(channels') = Len(channels) + 1]_vars
    /\ [][last'.op \in {"onerror", "onclose"}
            => /\ Len(channels') = Len(channels)
               /\ socketRef' = socketRef
               /\ (status' = "connecting" => status = "connecting")]_vars

C16_Witness ==
    /\ last.op = "onerror"
    /\ last.ch = socketRef
    /\ Len(channels) = 1
    /\ status = "error"
    /\ channels[1].ready = "CLOSED"

\* C17 - Exactly one request per session: a socket carries at most one
\* payload, none before it opened; a payload is sent only by the open handler
\* of that socket, which is then the owned socket with close() never called
\* on it, and after the open handler exactly one payload has been sent.
C17_OneRequestPerSession ==
    /\ [](\A c \in Chans :
            /\ Len(channels[c].sent) <= 1
            /\ channels[c].ready = "CONNECTING" => Len(channels[c].sent) = 0
            /\ channels[c].ready = "OPEN" => Len(channels[c].sent) = 1)
    /\ [][\A c \in Chans :
            channels'[c].sent # channels[c].sent
              => /\ last'.op = "onopen"
                 /\ last'.ch = c
                 /\ c = socketRef
                 /\ channels[c].ready = "CONNECTING"
                 /\ NeverClosed(c)]_vars
    /\ [][last'.op = "onopen"
            => Len(channels'[last'.ch].sent) = 1]_vars

C17_Witness ==
    /\ Len(channels) = 2
    /\ Len(channels[1].sent) = 1
    /\ channels[1].ready = "CLOSED"
    /\ Len(channels[2].sent) = 1
    /\ last.op = "onopen"
    /\ last.ch = 2

\* C18 - Error text preference: once the status is 'error' with the server's
\* message as status text, the text stays that message until the next
\* startAnalysis call, also when a transport error event arrives afterwards.
C18_ServerTextKept ==
    [][(/\ status = "error"
        /\ message = ErrorFrame.value.f["message"]
        /\ last'.op # "startAnalysis")
          => message' = message]_vars

\* C19 - Every session resolves to a terminal outcome: with a server that
\* sends progress messages followed by one terminal message, and fair
\* delivery, every session that is not preempted eventually reaches
\* 'complete' or 'error', and makes exactly one terminal transition.
C19_Resolves ==
    \A c \in 1..MaxSubmits :
        (socketRef = c) ~> (socketRef # c \/ status \in TerminalStatuses)

C19_EverySessionResolvesOnce ==
    /\ C19_Resolves
    /\ [](terminals <= 1)

\* C20 - the request sent carries user_id equal to the supplied
\* userId when one is supplied and 'guest' when userId is undefined, with url
\* and target_keyword those of the startAnalysis call that created the socket.
C20_RequestPayload ==
    \A c \in Chans : \A i \in 1..Len(channels[c].sent) :
        /\ channels[c].sent[i].url = channels[c].url
        /\ channels[c].sent[i].target_keyword = channels[c].keyword
        /\ channels[c].sent[i].user_id =
              IF channels[c].userId = Undefined THEN Str("guest")
                                                ELSE channels[c].userId

\* One request sent for an absent userId and one for a supplied userId.
C20_Witness ==
    /\ Len(channels) = 2
    /\ channels[1].userId = Undefined
    /\ Len(channels[1].sent) = 1
    /\ channels[1].sent[1].user_id = Str("guest")
    /\ channels[2].userId = Str("u1")
    /\ Len(channels[2].sent) = 1
    /\ channels[2].sent[1].user_id = Str("u1")

\* C21 - A transport error event sets the status to 'error' with the generic
\* connectivity text, calls close() on no socket, and leaves progress and
\* result unchanged.
C21_ErrorEventEffect ==
    [][last'.op = "onerror"
         => /\ status' = "error"
            /\ message' = ConnectionErrorText
            /\ \A c \in Chans :
                  channels'[c].closeCalls = channels[c].closeCalls
            /\ UNCHANGED <<progress, result, socketRef>>]_vars

\* An error event on an open socket that had reported progress 40.
C21_Witness ==
    /\ last.op = "onerror"
    /\ last.ch = socketRef
    /\ status = "error"
    /\ message = ConnectionErrorText
    /\ progress = Num(40)
    /\ NeverClosed(socketRef)

\* C22 - The open event moves the status from 'connecting' to 'analyzing'
\* with progress still 0 and result still null, and whenever the status is
\* 'analyzing' the request of the current session has been sent on the owned
\* socket.
C22_OpenedMeansSent ==
    /\ [][(last'.op = "onopen" /\ status = "connecting")
            => /\ status' = "analyzing"
               /\ progress = Num(0) /\ progress' = Num(0)
               /\ result = Null /\ result' = Null]_vars
    /\ [](status = "analyzing"
            => /\ socketRef # 0
               /\ Len(channels[socketRef].sent) = 1
               /\ channels[socketRef].sent[1].url = channels[socketRef].url)

C22_Witness ==
    /\ last.op = "onopen"
    /\ last.ch = socketRef
    /\ status = "analyzing"
    /\ progress = Num(0)
    /\ result = Null
    /\ Len(channels[socketRef].sent) = 1

\* C23 - Channel ownership tracks the status: in status 'idle' socketRef is
\* null, and in every other status socketRef refers to the socket created by
\* the most recent startAnalysis call.
C23_OwnershipTracksStatus ==
    /\ status = "idle" => socketRef = 0 /\ Len(channels) = 0
    /\ status # "idle" => socketRef # 0 /\ socketRef = Len(channels)

\* A terminal session after a preemption still owns the latest socket.
C23_Witness ==
    /\ status = "complete"
    /\ Len(channels) = 2
    /\ socketRef = 2
    /\ channels[2].ready = "CLOSED"

\* C24 - No timeout: while the status is 'connecting' or 'analyzing', status,
\* progress, status text and result change only in a step that is a socket
\* event or a startAnalysis call, so without events the session stays as it
\* is; a close event changes none of them.
C24_NoTimeout ==
    /\ [][(status \in {"connecting", "analyzing"} /\ view' # view)
            => (IsEvent(last') \/ last'.op = "startAnalysis")]_vars
    /\ [][last'.op = "onclose" => UNCHANGED <<view, socketRef>>]_vars

\* The server closed the owned socket and the session is still 'analyzing'.
C24_Witness ==
    /\ last.op = "onclose"
    /\ last.ch = socketRef
    /\ status = "analyzing"
    /\ channels[socketRef].ready = "CLOSED"
    /\ channels[socketRef].closeFired

\* C25 - Frame conditions of message handling: a progress message leaves
\* status and result unchanged, a complete message leaves progress and status
\* text unchanged, a server error message leaves progress and result
\* unchanged.
C25_MessageFrames ==
    [][last'.op = "onmessage"
         => /\ FrameType(last'.frame) = Str("progress")
                 => UNCHANGED <<status, result>>
            /\ FrameType(last'.frame) = Str("complete")
                 => UNCHANGED <<progress, message>>
            /\ FrameType(last'.frame) = Str("error")
                 => UNCHANGED <<progress, result>>]_vars

\* A complete message that kept the progress and text of the last progress
\* message.
C25_Witness ==
    /\ last.op = "onmessage"
    /\ FrameType(last.frame) = Str("complete")
    /\ status = "complete"
    /\ progress = Num(25)
    /\ message = Str("Crawling")

\* C26 - The status 'idle' holds only before the first startAnalysis call: no
\* step sets the status back to 'idle', and while 'idle' progress is 0, the
\* status text is empty and result is null.
C26_IdleOnlyInitially ==
    /\ [](status = "idle"
            => /\ Len(channels) = 0
               /\ last.op = "init"
               /\ progress = Num(0)
               /\ message = Str("")
               /\ result = Null)
    /\ [][status' = "idle" => status = "idle"]_vars

\* Every socket of two finished sessions is closed and the status is not
\* 'idle'.
C26_Witness ==
    /\ Len(channels) = 2
    /\ \A c \in Chans : channels[c].ready = "CLOSED" /\ channels[c].closeFired
    /\ last.op = "onclose"
    /\ status = "complete"

\* C27 - Through the analyze page, startAnalysis is called only with a
\* non-empty url and keyword, and the submit control is disabled whenever the
\* status is 'connecting' or 'analyzing', so a page-driven submit happens only
\* from 'idle', 'complete' or 'error'.
C27_PageSubmit ==
    /\ [](status \in {"connecting", "analyzing"} => SubmitDisabled)
    /\ [][last'.op = "startAnalysis"
            => /\ status \in {"idle", "complete", "error"}
               /\ channels'[socketRef'].url # ""
               /\ channels'[socketRef'].keyword # ""]_vars
    /\ [][last'.op = "handleAnalyze"
            => UNCHANGED <<view, socketRef, channels>>]_vars

\* A second analysis submitted from the page after the first socket was
\* closed.
C27_Witness ==
    /\ last.op = "startAnalysis"
    /\ Len(channels) = 2
    /\ channels[1].closeFired
    /\ channels[2].url = "https://ex.com"
    /\ channels[2].keyword = "shoes"

====
